---- MODULE Spec2Model ----
(***************************************************************************)
(* A model of Rapfi's staged move picker (src/Rapfi/search/movepick.cpp,   *)
(* movepick.h): the three constructors, the stream operation operator(),   *)
(* pickNextMove, scoreMoves and fastPartialSort; and of the two dataset    *)
(* readers of src/Rapfi/tuning/dataset.cpp as far as their file and entry  *)
(* cursors go.                                                             *)
(*                                                                         *)
(* The board, the move generators, the evaluator and the history tables    *)
(* live outside these files.  They are modelled from the specification     *)
(* (spec.md, sections 3, 4 and 6) as data the picker reads: a board is a   *)
(* row of cells, each with an emptiness flag, a pattern4 per colour, a     *)
(* static score per colour and a forbidden-point flag; a generator emits   *)
(* the empty cells its kind selects, in ascending cell order.              *)
(***************************************************************************)
EXTENDS Integers, Sequences, FiniteSets, TLC

VARIABLES
    board,              \* the position the picker borrows (never changes)
    tables,             \* the history tables and the evaluator's policy
    kind,               \* search type of the constructed picker, "NEW" before
    stage,              \* MovePicker::stage
    rule,               \* MovePicker::rule
    ttMove,             \* MovePicker::ttMove
    allowPlainB4InVCF,  \* MovePicker::allowPlainB4InVCF
    hasPolicy,          \* MovePicker::hasPolicy
    curScore,           \* MovePicker::curScore
    curPolicyScore,     \* MovePicker::curPolicyScore
    maxPolicyScore,     \* MovePicker::maxPolicyScore
    moves,              \* MovePicker::moves, the entries in [moves, endMove)
    curMove,            \* MovePicker::curMove, as an offset from moves
    endMove,            \* MovePicker::endMove, as an offset from moves
    args,               \* the ExtraArgs the constructor was given
    yields,             \* every value operator() has returned, in order
    ops,                \* every generator call, scoring pass and sort, in order
    dataSource,         \* the DataSource of a dataset reader, "none" without one
    delivered           \* every result of Dataset::next() and every reset(), in order

vars == <<board, tables, kind, stage, rule, ttMove, allowPlainB4InVCF, hasPolicy,
          curScore, curPolicyScore, maxPolicyScore, moves, curMove, endMove,
          args, yields, ops, dataSource, delivered>>

(***************************************************************************)
(* Bounds of the model.                                                    *)
(***************************************************************************)
\* Capacity of the inline move buffer and cell count of the largest board.
\* The engine's value is far larger; the sorter's thresholds MAX_MOVES / 4 and
\* MAX_MOVES * 2 / 3 are computed from it exactly as the code computes them.
MAX_MOVES == 8
\* Cells of the boards of Spec.
BoardCells == 2
\* Calls of operator() made after the first NONE.
MaxCallsAfterNone == 1
\* Files of a dataset, entries of one file, and the calls of next() and of
\* reset() made on one dataset.
MaxFiles == 2
MaxEntries == 2
MaxCalls == 7
MaxResets == 1

(***************************************************************************)
(* Types of the surrounding engine.                                        *)
(***************************************************************************)
BLACK == "BLACK"
WHITE == "WHITE"
Colors == {BLACK, WHITE}
Opponent(c) == IF c = BLACK THEN WHITE ELSE BLACK

FREESTYLE == "FREESTYLE"
STANDARD == "STANDARD"
RENJU == "RENJU"
Rules == {FREESTYLE, STANDARD, RENJU}

\* Pos::NONE; the cells of a board are 1 .. board.n.
PosNONE == 0

\* Pattern4, weakest first.
P4_NONE == 0
H_FLEX3 == 1
FORBID == 2
E_BLOCK4 == 3
D_BLOCK4_PLUS == 4
C_BLOCK4_FLEX3 == 5
B_FLEX4 == 6
A_FIVE == 7

\* Depth from which quiescence VCF search allows plain block-four moves.
DEPTH_QVCF_FULL == -1
\* Half-width of the window of generateNeighbors around its seed.
NeighborRange == 2
\* std::numeric_limits<Score>::lowest() / 2.
ScoreLowestHalf == -16384
\* A value the code never assigned (a field with no initialiser, the score of a
\* move no scoring pass has touched).
INDETERMINATE == -7777

\* enum Stages.
MAIN_TT == 0
MAIN_MOVES == 1
DEFENDFIVE_TT == 2
DEFENDFIVE_MOVES == 3
DEFENDFOUR_TT == 4
DEFENDFOUR_MOVES == 5
DEFENDB4F3_TT == 6
DEFENDB4F3_MOVES == 7
QVCF_TT == 8
QVCF_MOVES == 9
ALLMOVES == 10

TTStages == {MAIN_TT, DEFENDFIVE_TT, DEFENDFOUR_TT, DEFENDB4F3_TT, QVCF_TT}

\* enum ScoreType, as sets of flags (BALANCED = ATTACK | DEFEND).
BALANCED == {"ATTACK", "DEFEND"}
POLICY == {"POLICY"}
MAIN_HISTORY == {"MAIN_HISTORY"}
COUNTER_MOVE == {"COUNTER_MOVE"}
CONT_HISTORY == {"CONT_HISTORY"}

(***************************************************************************)
(* Helpers on sequences.                                                   *)
(***************************************************************************)
Range(s) == {s[i] : i \in DOMAIN s}
Last(s) == s[Len(s)]
RemoveAt(s, i) == SubSeq(s, 1, i - 1) \o SubSeq(s, i + 1, Len(s))
Max(a, b) == IF a >= b THEN a ELSE b
\* C++ integer division, truncating toward zero.
\* CDiv rounding toward negative infinity.
CDivFloor(a, b) == a \div b

CDiv(a, b) == IF a >= 0 THEN a \div b ELSE -((-a) \div b)

(***************************************************************************)
(* The board capability.                                                   *)
(***************************************************************************)
Cells(b) == 1 .. b.n
Self(b) == b.side
Oppo(b) == Opponent(b.side)
\* Board::cell(pos): the cell of Pos::NONE is a wall cell without patterns.
WallCell == [empty |-> FALSE, pattern4 |-> [c \in Colors |-> P4_NONE],
             score |-> [c \in Colors |-> 0], forbidden |-> FALSE]
CellAt(b, pos) == IF pos \in Cells(b) THEN b.cells[pos] ELSE WallCell
IsEmpty(b, pos) == CellAt(b, pos).empty
IsInBoard(b, pos) == pos \in Cells(b)
P4Count(b, c, p4) ==
    Cardinality({i \in Cells(b) : b.cells[i].empty /\ b.cells[i].pattern4[c] = p4})
CheckForbiddenPoint(b, pos) == CellAt(b, pos).forbidden
ValidateOpponentCMove(b) == b.oppoCMoveValid

(***************************************************************************)
(* The move generator facade.  A freshly generated move carries no score.  *)
(***************************************************************************)
NewMove(pos) == [pos |-> pos, score |-> INDETERMINATE, rawScore |-> INDETERMINATE]

RECURSIVE CellsWhere(_, _, _)
\* The cells i .. b.n in ascending order that are empty and in the set `sel`.
CellsWhere(b, sel, i) ==
    IF i > b.n THEN <<>>
    ELSE (IF b.cells[i].empty /\ i \in sel THEN <<NewMove(i)>> ELSE <<>>)
         \o CellsWhere(b, sel, i + 1)

SelfAtLeast(b, p4) == {i \in Cells(b) : b.cells[i].pattern4[Self(b)] >= p4}
OppoAtLeast(b, p4) == {i \in Cells(b) : b.cells[i].pattern4[Oppo(b)] >= p4}
SelfExactly(b, p4) == {i \in Cells(b) : b.cells[i].pattern4[Self(b)] = p4}
OppoExactly(b, p4) == {i \in Cells(b) : b.cells[i].pattern4[Oppo(b)] = p4}

\* The cells a generation kind selects.
GenSet(b, k) ==
    CASE k = "WINNING" ->
            IF P4Count(b, Self(b), A_FIVE) > 0 THEN SelfExactly(b, A_FIVE)
            ELSE SelfExactly(b, B_FLEX4)
      [] k = "DEFEND_FIVE" -> OppoExactly(b, A_FIVE)
      [] k = "DEFEND_FOUR" -> OppoAtLeast(b, E_BLOCK4)
      [] k = "DEFEND_FOUR|ALL" -> Cells(b)
      [] k \in {"DEFEND_B4F3|RULE_FREESTYLE", "DEFEND_B4F3|RULE_STANDARD",
                "DEFEND_B4F3|RULE_RENJU"} ->
            IF b.b4f3Filtered THEN {} ELSE OppoAtLeast(b, E_BLOCK4)
      [] k = "VCF" -> SelfAtLeast(b, E_BLOCK4)
      [] k = "VCF|COMB" -> SelfAtLeast(b, D_BLOCK4_PLUS)
      [] k = "ALL" -> Cells(b)

\* generate<k>(board, moveList): the moves appended to the list.
Generate(b, k) == CellsWhere(b, GenSet(b, k), 1)

\* generateNeighbors<k>(board, moveList, center, RANGE_SQUARE2_LINE4, ...).
InWindow(center, i) == i - center <= NeighborRange /\ center - i <= NeighborRange
GenerateNeighbors(b, k, center) ==
    IF ~IsInBoard(b, center) THEN <<>>
    ELSE CellsWhere(b, {i \in GenSet(b, k) : InWindow(center, i)}, 1)

(***************************************************************************)
(* fastPartialSort.  Moves compare by score.                               *)
(***************************************************************************)
MoveLess(a, b) == a.score < b.score

InsertionSortLimit == MAX_MOVES \div 4
SortLimit == (MAX_MOVES * 2) \div 3

RECURSIVE ShiftDownPastEqual(_, _, _)
\* ShiftDown moving the element past the moves of equal score too.
ShiftDownPastEqual(arr, q, tmp) ==
    IF q # 1 /\ ~MoveLess(tmp, arr[q - 1])
    THEN ShiftDownPastEqual([arr EXCEPT ![q] = arr[q - 1]], q - 1, tmp)
    ELSE [arr EXCEPT ![q] = tmp]

RECURSIVE ShiftDown(_, _, _)
\* for (q = sortedEnd; q != begin && *(q - 1) < tmp; --q) *q = *(q - 1); *q = tmp;
ShiftDown(arr, q, tmp) ==
    IF q # 1 /\ MoveLess(arr[q - 1], tmp)
    THEN ShiftDown([arr EXCEPT ![q] = arr[q - 1]], q - 1, tmp)
    ELSE [arr EXCEPT ![q] = tmp]

RECURSIVE InsertionLoop(_, _, _, _)
\* for (sortedEnd = begin, p = begin + 1; p < end; ++p) if (p->score >= limit) ...
InsertionLoop(arr, sortedEnd, p, limit) ==
    IF p > Len(arr) THEN arr
    ELSE IF arr[p].score >= limit
         THEN LET tmp == arr[p]
                  se == sortedEnd + 1
                  moved == [arr EXCEPT ![p] = arr[se]]
              IN  InsertionLoop(ShiftDown(moved, se, tmp), se, p + 1, limit)
         ELSE InsertionLoop(arr, sortedEnd, p + 1, limit)

InsertionSort(arr, limit) == InsertionLoop(arr, 1, 2, limit)

\* Index of the first occurrence of m in s.
FirstIndex(s, m) == CHOOSE i \in DOMAIN s : s[i] = m /\ \A j \in 1 .. i - 1 : s[j] # m

RECURSIVE ArrangeDesc(_)
\* std::sort(begin, end, std::greater<>()): every descending arrangement; the
\* order of moves with equal scores is unspecified.
ArrangeDesc(s) ==
    IF s = <<>> THEN {<<>>}
    ELSE LET top == {s[i] : i \in {k \in DOMAIN s :
                                      \A j \in DOMAIN s : s[j].score <= s[k].score}}
         IN  UNION {{<<m>> \o t : t \in ArrangeDesc(RemoveAt(s, FirstIndex(s, m)))} :
                    m \in top}

RECURSIVE Perms(_)
\* Every order of the elements of s.
Perms(s) ==
    IF s = <<>> THEN {<<>>}
    ELSE UNION {{<<m>> \o t : t \in Perms(RemoveAt(s, FirstIndex(s, m)))} :
                m \in Range(s)}

\* std::partial_sort(begin, begin + k, end, std::greater<>()): the k greatest in
\* descending order, then the others in an unspecified order.
PartialSort(s, k) ==
    UNION {{SubSeq(f, 1, k) \o t : t \in Perms(SubSeq(f, k + 1, Len(f)))} :
           f \in ArrangeDesc(s)}

\* The buffers fastPartialSort(begin, end, limit) can leave.
FastPartialSort(ms, limit) ==
    IF Len(ms) <= InsertionSortLimit THEN {InsertionSort(ms, limit)}
    ELSE IF Len(ms) <= SortLimit THEN ArrangeDesc(ms)
    ELSE PartialSort(ms, SortLimit)

(***************************************************************************)
(* scoreMoves<Type>.                                                       *)
(***************************************************************************)
CounterMoveBonus == 21

\* The pass takes the evaluator's policy when POLICY is asked and there is one.
UsesPolicy(type, t) == "POLICY" \in type /\ t.evaluator

BaseScore(m, type, b, t) ==
    LET c == CellAt(b, m.pos)
        self == Self(b)
        oppo == Oppo(b)
    IN  IF UsesPolicy(type, t) THEN t.policy[m.pos]
        ELSE IF BALANCED \subseteq type THEN c.score[self]
        ELSE IF "ATTACK" \in type THEN CDiv(c.score[self] * 2 + c.score[oppo], 3)
        ELSE IF "DEFEND" \in type THEN CDiv(c.score[self] + c.score[oppo] * 2, 3)
        ELSE INDETERMINATE

\* MainHistoryTerm taken off the score instead of added to it.
MainHistoryTermSubtracted(m, type, b, t) ==
    LET c == CellAt(b, m.pos)
    IN  IF "MAIN_HISTORY" \in type
        THEN IF c.pattern4[Self(b)] >= H_FLEX3
             THEN -CDiv(t.mainHistory[Self(b)][m.pos].HIST_ATTACK, 128)
             ELSE -CDiv(t.mainHistory[Self(b)][m.pos].HIST_QUIET, 256)
        ELSE 0

MainHistoryTerm(m, type, b, t) ==
    LET c == CellAt(b, m.pos)
    IN  IF "MAIN_HISTORY" \in type
        THEN IF c.pattern4[Self(b)] >= H_FLEX3
             THEN CDiv(t.mainHistory[Self(b)][m.pos].HIST_ATTACK, 128)
             ELSE CDiv(t.mainHistory[Self(b)][m.pos].HIST_QUIET, 256)
        ELSE 0

\* CounterMoveTerm without the pattern comparison.
CounterMoveTermAnyP4(m, type, b, t) ==
    IF "COUNTER_MOVE" \in type /\ IsInBoard(b, b.lastMove)
       /\ t.counterMove[Oppo(b)][b.lastMove].pos = m.pos
    THEN CounterMoveBonus
    ELSE 0

CounterMoveTerm(m, type, b, t) ==
    LET c == CellAt(b, m.pos)
    IN  IF "COUNTER_MOVE" \in type /\ IsInBoard(b, b.lastMove)
           /\ LET e == t.counterMove[Oppo(b)][b.lastMove]
              IN  e.pos = m.pos /\ e.p4 <= c.pattern4[Self(b)]
        THEN CounterMoveBonus
        ELSE 0

\* ContHistoryTerm with the commented-out line 'm.score +=
\* (*continuationHistory[0])[m.pos] / 2048' live.
ContHistoryTermActive(m, type, b, t) ==
    IF "CONT_HISTORY" \in type THEN CDiv(t.continuationHistory[0][m.pos], 2048) ELSE 0

\* The commented-out continuation history adds nothing.
ContHistoryTerm(m, type, b, t) == 0

ScoreOne(m, type, b, t) ==
    LET base == BaseScore(m, type, b, t)
    IN  [pos |-> m.pos,
         score |-> base + MainHistoryTerm(m, type, b, t) + CounterMoveTerm(m, type, b, t)
                        + ContHistoryTerm(m, type, b, t),
         rawScore |-> base]

RECURSIVE MaxRawAfterHistory(_, _)
\* MaxRaw taking the maximum after the history terms were added to the score.
MaxRawAfterHistory(ms, acc) ==
    IF ms = <<>> THEN acc ELSE MaxRawAfterHistory(Tail(ms), Max(acc, Head(ms).score))

RECURSIVE MaxRaw(_, _)
\* maxPolicyScore = std::max(maxPolicyScore, m.rawScore) over the list.
MaxRaw(ms, acc) == IF ms = <<>> THEN acc ELSE MaxRaw(Tail(ms), Max(acc, Head(ms).rawScore))

\* The picker after scoreMoves<type>() over [curMove, endMove).
ScoreMoves(p, type, b, t) ==
    LET scored == [i \in DOMAIN p.moves |-> ScoreOne(p.moves[i], type, b, t)]
    IN  [p EXCEPT !.moves = scored,
                  !.hasPolicy = IF UsesPolicy(type, t) THEN TRUE ELSE @,
                  !.maxPolicyScore = IF UsesPolicy(type, t)
                                     THEN MaxRaw(scored, ScoreLowestHalf) ELSE @,
                  !.ops = @ \o <<[op |-> "score", arg |-> type]>>]

(***************************************************************************)
(* The picker as a record, for the operators below.                        *)
(***************************************************************************)
Picker ==
    [stage |-> stage, rule |-> rule, ttMove |-> ttMove,
     allowPlainB4InVCF |-> allowPlainB4InVCF, hasPolicy |-> hasPolicy,
     curScore |-> curScore, curPolicyScore |-> curPolicyScore,
     maxPolicyScore |-> maxPolicyScore, moves |-> moves, curMove |-> curMove,
     endMove |-> endMove, ops |-> ops]

GenOp(k) == [op |-> "generate", arg |-> k]
SortOp == [op |-> "sort", arg |-> 0]

\* curMove = moves; endMove = generate<k>(board, curMove);
GenerateInto(p, b, k) ==
    LET ms == Generate(b, k)
    IN  [p EXCEPT !.moves = ms, !.curMove = 0, !.endMove = Len(ms),
                  !.ops = @ \o <<GenOp(k)>>]

\* endMove = generate<k>(board, endMove);
GenerateAppend(p, b, k) ==
    LET ms == p.moves \o Generate(b, k)
    IN  [p EXCEPT !.moves = ms, !.endMove = Len(ms), !.ops = @ \o <<GenOp(k)>>]

\* fastPartialSort(curMove, endMove, limit); stage = ALLMOVES;
SortAndGo(p, limit) ==
    {[p EXCEPT !.moves = s, !.stage = ALLMOVES, !.ops = @ \o <<SortOp>>] :
        s \in FastPartialSort(p.moves, limit)}

DefendB4F3Kind(r) ==
    CASE r = STANDARD -> "DEFEND_B4F3|RULE_STANDARD"
      [] r = RENJU -> "DEFEND_B4F3|RULE_RENJU"
      [] OTHER -> "DEFEND_B4F3|RULE_FREESTYLE"

\* The entry test of the DEFEND_B4F3 case, shared by the root and main constructors.
OppoB4F3Gate(b, r) ==
    P4Count(b, Oppo(b), C_BLOCK4_FLEX3) > 0 /\ (r # RENJU \/ ValidateOpponentCMove(b))

(***************************************************************************)
(* The constructors.                                                       *)
(***************************************************************************)
\* A picker whose fields hold nothing yet.
Blank(r) ==
    [stage |-> INDETERMINATE, rule |-> r, ttMove |-> INDETERMINATE,
     allowPlainB4InVCF |-> FALSE, hasPolicy |-> FALSE,
     curScore |-> INDETERMINATE, curPolicyScore |-> INDETERMINATE,
     maxPolicyScore |-> INDETERMINATE, moves |-> <<>>,
     curMove |-> INDETERMINATE, endMove |-> INDETERMINATE, ops |-> <<>>]

\* RootPicker with its first two cases in the other order.
RootPickerDefendFirst(b, r) ==
    LET self == Self(b)
        oppo == Oppo(b)
        p0 == [Blank(r) EXCEPT !.stage = ALLMOVES, !.ttMove = PosNONE]
    IN  IF P4Count(b, oppo, A_FIVE) > 0 THEN GenerateInto(p0, b, "DEFEND_FIVE")
        ELSE IF P4Count(b, self, A_FIVE) > 0 THEN GenerateInto(p0, b, "WINNING")
        ELSE IF P4Count(b, self, B_FLEX4) > 0 THEN GenerateInto(p0, b, "WINNING")
        ELSE IF P4Count(b, oppo, B_FLEX4) > 0
             THEN GenerateAppend(GenerateInto(p0, b, "DEFEND_FOUR|ALL"), b, "VCF")
        ELSE IF OppoB4F3Gate(b, r)
             THEN LET d == GenerateInto(p0, b, DefendB4F3Kind(r))
                  IN  IF d.endMove = d.curMove THEN GenerateInto(d, b, "ALL")
                      ELSE GenerateAppend(d, b, "VCF")
        ELSE GenerateInto(p0, b, "ALL")

\* MovePicker(rule, board, ExtraArgs<ROOT>)
RootPicker(b, r) ==
    LET self == Self(b)
        oppo == Oppo(b)
        p0 == [Blank(r) EXCEPT !.stage = ALLMOVES, !.ttMove = PosNONE]
    IN  IF P4Count(b, self, A_FIVE) > 0 THEN GenerateInto(p0, b, "WINNING")
        ELSE IF P4Count(b, oppo, A_FIVE) > 0 THEN GenerateInto(p0, b, "DEFEND_FIVE")
        ELSE IF P4Count(b, self, B_FLEX4) > 0 THEN GenerateInto(p0, b, "WINNING")
        ELSE IF P4Count(b, oppo, B_FLEX4) > 0
             THEN GenerateAppend(GenerateInto(p0, b, "DEFEND_FOUR|ALL"), b, "VCF")
        ELSE IF OppoB4F3Gate(b, r)
             THEN LET d == GenerateInto(p0, b, DefendB4F3Kind(r))
                  IN  IF d.endMove = d.curMove THEN GenerateInto(d, b, "ALL")
                      ELSE GenerateAppend(d, b, "VCF")
        ELSE GenerateInto(p0, b, "ALL")

\* FinishTT without the emptiness test on the TT move.
FinishTTNoEmptyCheck(p, b, firstStage, ttmValid0, tt) ==
    [p EXCEPT !.stage = firstStage + (IF ttmValid0 THEN 0 ELSE 1),
              !.ttMove = IF ttmValid0 THEN tt ELSE PosNONE]

\* check legality for defence ttmove; stage += !ttmValid; ttMove = ...
FinishTT(p, b, firstStage, ttmValid0, tt) ==
    LET ttmValid == ttmValid0 /\ IsEmpty(b, tt)
    IN  [p EXCEPT !.stage = firstStage + (IF ttmValid THEN 0 ELSE 1),
                  !.ttMove = IF ttmValid THEN tt ELSE PosNONE]

\* ttmValid of the DEFENDFOUR_TT case.
DefendFourTTValid(b, tt) ==
    LET ttCell == CellAt(b, tt)
    IN  \/ ttCell.pattern4[BLACK] >= E_BLOCK4
        \/ ttCell.pattern4[BLACK] = FORBID
        \/ ttCell.pattern4[WHITE] >= E_BLOCK4

\* MainPicker without the case of the opponent's open four.
MainPickerNoFour(b, r, tt) ==
    LET oppo == Oppo(b)
        p0 == Blank(r)
    IN  IF P4Count(b, oppo, A_FIVE) > 0
        THEN FinishTT(p0, b, DEFENDFIVE_TT, CellAt(b, tt).pattern4[oppo] = A_FIVE, tt)
        ELSE IF OppoB4F3Gate(b, r)
        THEN FinishTT(p0, b, DEFENDB4F3_TT, TRUE, tt)
        ELSE FinishTT(p0, b, MAIN_TT, TRUE, tt)

\* MainPicker testing the opponent's open four before the opponent's five.
MainPickerFourFirst(b, r, tt) ==
    LET oppo == Oppo(b)
        p0 == Blank(r)
    IN  IF P4Count(b, oppo, B_FLEX4) > 0
        THEN FinishTT(p0, b, DEFENDFOUR_TT, DefendFourTTValid(b, tt), tt)
        ELSE IF P4Count(b, oppo, A_FIVE) > 0
        THEN FinishTT(p0, b, DEFENDFIVE_TT, CellAt(b, tt).pattern4[oppo] = A_FIVE, tt)
        ELSE IF OppoB4F3Gate(b, r)
        THEN FinishTT(p0, b, DEFENDB4F3_TT, TRUE, tt)
        ELSE FinishTT(p0, b, MAIN_TT, TRUE, tt)

\* MovePicker(rule, board, ExtraArgs<MAIN>)
MainPicker(b, r, tt) ==
    LET oppo == Oppo(b)
        p0 == Blank(r)
    IN  IF P4Count(b, oppo, A_FIVE) > 0
        THEN FinishTT(p0, b, DEFENDFIVE_TT, CellAt(b, tt).pattern4[oppo] = A_FIVE, tt)
        ELSE IF P4Count(b, oppo, B_FLEX4) > 0
        THEN FinishTT(p0, b, DEFENDFOUR_TT, DefendFourTTValid(b, tt), tt)
        ELSE IF OppoB4F3Gate(b, r)
        THEN FinishTT(p0, b, DEFENDB4F3_TT, TRUE, tt)
        ELSE FinishTT(p0, b, MAIN_TT, TRUE, tt)

\* AllowPlainB4 with one of the two previous patterns being enough.
AllowPlainB4Either(depth, previousSelfP4) ==
    \/ depth >= DEPTH_QVCF_FULL
    \/ (previousSelfP4[1] >= D_BLOCK4_PLUS \/ previousSelfP4[2] >= D_BLOCK4_PLUS)

\* allowPlainB4InVCF of the QVCF constructor.
AllowPlainB4(depth, previousSelfP4) ==
    \/ depth >= DEPTH_QVCF_FULL
    \/ (previousSelfP4[1] >= D_BLOCK4_PLUS /\ previousSelfP4[2] >= D_BLOCK4_PLUS)

\* QVCFPicker without the DEFENDFIVE case.
QVCFPickerNoDefence(b, r, tt, depth, previousSelfP4) ==
    LET self == Self(b)
        p0 == [Blank(r) EXCEPT
                 !.allowPlainB4InVCF = AllowPlainB4(depth, previousSelfP4)]
    IN  FinishTT(p0, b, QVCF_TT, CellAt(b, tt).pattern4[self] >= E_BLOCK4, tt)

\* MovePicker(rule, board, ExtraArgs<QVCF>)
QVCFPicker(b, r, tt, depth, previousSelfP4) ==
    LET self == Self(b)
        oppo == Oppo(b)
        p0 == [Blank(r) EXCEPT
                 !.allowPlainB4InVCF = AllowPlainB4(depth, previousSelfP4)]
    IN  IF P4Count(b, oppo, A_FIVE) > 0
        THEN FinishTT(p0, b, DEFENDFIVE_TT, CellAt(b, tt).pattern4[oppo] = A_FIVE, tt)
        ELSE FinishTT(p0, b, QVCF_TT, CellAt(b, tt).pattern4[self] >= E_BLOCK4, tt)

(***************************************************************************)
(* pickNextMove<Next> with the always-true filter.                         *)
(***************************************************************************)
\* Acceptable without the comparison with the TT move.
AcceptableAnyTT(p, b, m) ==
    LET forbidden == p.rule = RENJU /\ b.side = BLACK
    IN  ~forbidden \/ ~CheckForbiddenPoint(b, m.pos)

\* The test a buffer entry must pass to be returned.
Acceptable(p, b, m) ==
    LET forbidden == p.rule = RENJU /\ b.side = BLACK
    IN  m.pos # p.ttMove /\ (~forbidden \/ ~CheckForbiddenPoint(b, m.pos))

RECURSIVE ScanFromStuck(_, _, _)
\* ScanFrom returning *curMove without advancing past it.
ScanFromStuck(p, b, i) ==
    IF i < p.endMove
    THEN LET m == p.moves[i + 1]
         IN  IF Acceptable(p, b, m)
             THEN [ret |-> m.pos,
                   p |-> [p EXCEPT !.curScore = m.score, !.curPolicyScore = m.rawScore,
                                   !.curMove = i]]
             ELSE ScanFromStuck(p, b, i + 1)
    ELSE [ret |-> PosNONE, p |-> [p EXCEPT !.curMove = i]]

RECURSIVE ScanFromRewind(_, _, _)
\* ScanFrom putting curMove back to the start of the buffer when it runs dry.
ScanFromRewind(p, b, i) ==
    IF i < p.endMove
    THEN LET m == p.moves[i + 1]
         IN  IF Acceptable(p, b, m)
             THEN [ret |-> m.pos,
                   p |-> [p EXCEPT !.curScore = m.score, !.curPolicyScore = m.rawScore,
                                   !.curMove = i + 1]]
             ELSE ScanFromRewind(p, b, i + 1)
    ELSE [ret |-> PosNONE, p |-> [p EXCEPT !.curMove = 0]]

RECURSIVE ScanFrom(_, _, _)
\* while (curMove < endMove) { if (...) return *curMove++; curMove++; } return NONE;
ScanFrom(p, b, i) ==
    IF i < p.endMove
    THEN LET m == p.moves[i + 1]
         IN  IF Acceptable(p, b, m)
             THEN [ret |-> m.pos,
                   p |-> [p EXCEPT !.curScore = m.score, !.curPolicyScore = m.rawScore,
                                   !.curMove = i + 1]]
             ELSE ScanFrom(p, b, i + 1)
    ELSE [ret |-> PosNONE, p |-> [p EXCEPT !.curMove = i]]

PickNextMove(p, b) == ScanFrom(p, b, p.curMove)

(***************************************************************************)
(* operator(): the generation stages, each up to its `goto top`.           *)
(***************************************************************************)
MainMovesFlags == BALANCED \cup POLICY \cup MAIN_HISTORY \cup COUNTER_MOVE \cup CONT_HISTORY
DefendFlags == BALANCED \cup POLICY \cup MAIN_HISTORY

\* case MAIN_MOVES
MainMoves(p, b, t) ==
    SortAndGo(ScoreMoves(GenerateInto(p, b, "ALL"), MainMovesFlags, b, t), 0)

\* DefendFiveMoves generating also when a TT move was accepted.
DefendFiveMovesAlways(p, b, t) ==
    {[GenerateInto(p, b, "DEFEND_FIVE") EXCEPT !.stage = ALLMOVES]}

\* case DEFENDFIVE_MOVES
DefendFiveMoves(p, b, t) ==
    LET q == IF p.ttMove = PosNONE THEN GenerateInto(p, b, "DEFEND_FIVE")
             ELSE [p EXCEPT !.moves = <<>>, !.curMove = 0, !.endMove = 0]
    IN  {[q EXCEPT !.stage = ALLMOVES]}

\* DefendFourMoves generating every empty cell instead of the defences.
DefendFourMovesAll(p, b, t) ==
    SortAndGo(ScoreMoves(GenerateAppend(GenerateInto(p, b, "ALL"), b, "VCF"),
                         DefendFlags, b, t), 0)

\* DefendFourMoves appending the VCF output twice.
DefendFourMovesVCFTwice(p, b, t) ==
    SortAndGo(ScoreMoves(GenerateAppend(GenerateAppend(GenerateInto(p, b, "DEFEND_FOUR"),
                                                       b, "VCF"), b, "VCF"),
                         DefendFlags, b, t), 0)

\* case DEFENDFOUR_MOVES
DefendFourMoves(p, b, t) ==
    SortAndGo(ScoreMoves(GenerateAppend(GenerateInto(p, b, "DEFEND_FOUR"), b, "VCF"),
                         DefendFlags, b, t), 0)

\* DefendB4F3Moves falling back to ALL generation under the defence flags.
DefendB4F3MovesDefendFlags(p, b, t) ==
    LET d == GenerateInto(p, b, DefendB4F3Kind(p.rule))
    IN  IF d.endMove = d.curMove
        THEN SortAndGo(ScoreMoves(GenerateInto([d EXCEPT !.stage = MAIN_MOVES], b, "ALL"),
                                  DefendFlags, b, t), 0)
        ELSE SortAndGo(ScoreMoves(GenerateAppend(d, b, "VCF"), DefendFlags, b, t), 0)

\* case DEFENDB4F3_MOVES
DefendB4F3Moves(p, b, t) ==
    LET d == GenerateInto(p, b, DefendB4F3Kind(p.rule))
    IN  IF d.endMove = d.curMove
        THEN MainMoves([d EXCEPT !.stage = MAIN_MOVES], b, t)
        ELSE SortAndGo(ScoreMoves(GenerateAppend(d, b, "VCF"), DefendFlags, b, t), 0)

\* QVCFMoves scoring with the flags of the defence stages.
QVCFMovesWithHistory(p, b, t) ==
    LET selfLast == b.selfLast
        k == IF p.allowPlainB4InVCF THEN "VCF" ELSE "VCF|COMB"
        ms == GenerateNeighbors(b, k, selfLast)
        g == [p EXCEPT !.moves = ms, !.curMove = 0, !.endMove = Len(ms),
                       !.ops = @ \o <<[op |-> "generateNeighbors", arg |-> k]>>]
    IN  SortAndGo(ScoreMoves(g, DefendFlags, b, t), 0)

\* case QVCF_MOVES
QVCFMoves(p, b, t) ==
    LET selfLast == b.selfLast
        k == IF p.allowPlainB4InVCF THEN "VCF" ELSE "VCF|COMB"
        ms == GenerateNeighbors(b, k, selfLast)
        g == [p EXCEPT !.moves = ms, !.curMove = 0, !.endMove = Len(ms),
                       !.ops = @ \o <<[op |-> "generateNeighbors", arg |-> k]>>]
    IN  SortAndGo(ScoreMoves(g, BALANCED, b, t), 0)

\* TTStage stepping over the generation stage.
TTStageSkip(p) == [ret |-> p.ttMove, p |-> [p EXCEPT !.stage = @ + 2]]

\* case *_TT: ++stage; return ttMove;
TTStage(p) == [ret |-> p.ttMove, p |-> [p EXCEPT !.stage = @ + 1]]

\* The results one call of operator() can have: the value returned and the picker left.
Operator(p, b, t) ==
    IF p.stage \in TTStages THEN {TTStage(p)}
    ELSE IF p.stage = MAIN_MOVES THEN {PickNextMove(q, b) : q \in MainMoves(p, b, t)}
    ELSE IF p.stage = DEFENDFIVE_MOVES
         THEN {PickNextMove(q, b) : q \in DefendFiveMoves(p, b, t)}
    ELSE IF p.stage = DEFENDFOUR_MOVES
         THEN {PickNextMove(q, b) : q \in DefendFourMoves(p, b, t)}
    ELSE IF p.stage = DEFENDB4F3_MOVES
         THEN {PickNextMove(q, b) : q \in DefendB4F3Moves(p, b, t)}
    ELSE IF p.stage = QVCF_MOVES THEN {PickNextMove(q, b) : q \in QVCFMoves(p, b, t)}
    ELSE IF p.stage = ALLMOVES THEN {PickNextMove(p, b)}
    ELSE {[ret |-> PosNONE, p |-> p]}

(***************************************************************************)
(* The positions and tables the pickers are constructed over.              *)
(***************************************************************************)
OccupiedProfile == [empty |-> FALSE, pair |-> <<P4_NONE, P4_NONE>>, forb |-> FALSE]
EmptyProfile(pr, f) == [empty |-> TRUE, pair |-> pr, forb |-> f]

\* A board of n cells from a profile per cell (pair = <<pattern4[BLACK],
\* pattern4[WHITE]>>) and the side to move's static score per cell.  The seed of
\* the neighbourhood generator, the last stone of the side to move, is the first
\* occupied cell when there is one.
MakeBoard(n, side, r, profs, scoreOf, cValid, filtered) ==
    LET occupied == {i \in 1 .. n : ~profs[i].empty}
    IN  [n |-> n, side |-> side, rule |-> r,
         cells |-> [i \in 1 .. n |->
                      [empty |-> profs[i].empty,
                       pattern4 |-> [c \in Colors |-> IF c = BLACK THEN profs[i].pair[1]
                                                      ELSE profs[i].pair[2]],
                       score |-> [c \in Colors |-> IF c = side /\ profs[i].empty
                                                   THEN scoreOf[i] ELSE 0],
                       forbidden |-> profs[i].forb]],
         lastMove |-> PosNONE,
         selfLast |-> IF occupied = {} THEN PosNONE
                      ELSE CHOOSE i \in occupied : \A j \in occupied : i <= j,
         oppoCMoveValid |-> cValid,
         b4f3Filtered |-> filtered]

\* Whether the opponent of `side` has an empty cell of pattern p4 among profs.
ProfsOppoHas(profs, side, p4) ==
    \E i \in DOMAIN profs :
        profs[i].empty /\ profs[i].pair[IF side = BLACK THEN 2 ELSE 1] = p4

\* The rule gate and the DEFEND_B4F3 filter vary only where the code reads them.
GateChoices(profs, side, r) ==
    IF r = RENJU /\ ProfsOppoHas(profs, side, C_BLOCK4_FLEX3) THEN BOOLEAN ELSE {TRUE}
FilterChoices(profs, side) ==
    IF ProfsOppoHas(profs, side, C_BLOCK4_FLEX3) THEN BOOLEAN ELSE {FALSE}

\* Pattern pairs of the boards of Spec; FORBID exists under Renju only, on Black.
BasePairs ==
    {<<P4_NONE, P4_NONE>>, <<E_BLOCK4, P4_NONE>>, <<P4_NONE, E_BLOCK4>>,
     <<E_BLOCK4, E_BLOCK4>>, <<A_FIVE, P4_NONE>>, <<P4_NONE, A_FIVE>>,
     <<B_FLEX4, P4_NONE>>, <<P4_NONE, B_FLEX4>>, <<C_BLOCK4_FLEX3, P4_NONE>>,
     <<P4_NONE, C_BLOCK4_FLEX3>>}
ForbidPairs == {<<FORBID, P4_NONE>>, <<FORBID, E_BLOCK4>>, <<FORBID, A_FIVE>>}

\* checkForbiddenPoint is true only of cells whose Black pattern is FORBID; it is
\* varied where it is read, with Black to move.
ForbChoices(side, pr) == IF side = BLACK /\ pr[1] = FORBID THEN BOOLEAN ELSE {FALSE}

ProfilesOver(pairs, side) ==
    {OccupiedProfile} \cup UNION {{EmptyProfile(pr, f) : f \in ForbChoices(side, pr)} :
                                   pr \in pairs}

TopoProfiles(side, r) ==
    ProfilesOver(BasePairs \cup (IF r = RENJU THEN ForbidPairs ELSE {}), side)

\* Static scores of the boards of Spec: distinct, ascending with the cell.
TopoScore == [i \in 1 .. BoardCells |-> i - 1]

\* Tables that add nothing, and no evaluator.
ZeroTables(n) ==
    [evaluator |-> FALSE,
     policy |-> [i \in 1 .. n |-> 0],
     continuationHistory |-> [sl \in {0, 1, 3, 5} |-> [i \in 1 .. n |-> 0]],
     mainHistory |-> [c \in Colors |->
                        [i \in 1 .. n |-> [HIST_ATTACK |-> 0, HIST_QUIET |-> 0]]],
     counterMove |-> [c \in Colors |-> [i \in 1 .. n |-> [pos |-> PosNONE, p4 |-> P4_NONE]]]]

\* The depth and previousSelfP4 a QVCF picker is constructed with.
QVCFInputs ==
    {<<DEPTH_QVCF_FULL, <<P4_NONE, P4_NONE>>>>,
     <<DEPTH_QVCF_FULL - 1, <<D_BLOCK4_PLUS, D_BLOCK4_PLUS>>>>,
     <<DEPTH_QVCF_FULL - 1, <<D_BLOCK4_PLUS, E_BLOCK4>>>>,
     <<DEPTH_QVCF_FULL - 1, <<E_BLOCK4, D_BLOCK4_PLUS>>>>}

(***************************************************************************)
(* Boards of the largest size, MAX_MOVES cells, for the claims that count  *)
(* moves.  Laid out in blocks: `o` stones, then `f` cells Black may not    *)
(* take (Renju), then `d` cells where both sides make a four (the first of *)
(* them the opponent's open four), then quiet cells.  A four needs three   *)
(* stones on the board.                                                    *)
(***************************************************************************)
WideProfile(side, o, f, d, forb, i) ==
    IF i <= o THEN OccupiedProfile
    ELSE IF i <= o + f THEN EmptyProfile(<<FORBID, P4_NONE>>, forb)
    ELSE IF i = o + f + 1 /\ d > 0
         THEN EmptyProfile(IF side = BLACK THEN <<E_BLOCK4, B_FLEX4>>
                           ELSE <<B_FLEX4, E_BLOCK4>>, FALSE)
    ELSE IF i <= o + f + d THEN EmptyProfile(<<E_BLOCK4, E_BLOCK4>>, FALSE)
    ELSE EmptyProfile(<<P4_NONE, P4_NONE>>, FALSE)

WideLayouts(side, r) ==
    {l \in [o : 0 .. MAX_MOVES, f : 0 .. 1, d : 0 .. MAX_MOVES, forb : BOOLEAN] :
        /\ l.o + l.f + l.d <= MAX_MOVES
        /\ (l.d > 0 => l.o >= 3)
        /\ (l.f > 0 => r = RENJU)
        /\ (l.forb => l.f > 0 /\ side = BLACK)}

\* Static scores of the wide boards: ascending, descending, partly negative, and
\* with one tie.
WideScores ==
    {[i \in 1 .. MAX_MOVES |-> i], [i \in 1 .. MAX_MOVES |-> MAX_MOVES - i],
     [i \in 1 .. MAX_MOVES |-> i - 3],
     [i \in 1 .. MAX_MOVES |-> IF i < 2 THEN 2 ELSE i]}

(***************************************************************************)
(* The state machine: construct one picker, then call it.                  *)
(***************************************************************************)
Install(p) ==
    /\ stage' = p.stage
    /\ rule' = p.rule
    /\ ttMove' = p.ttMove
    /\ allowPlainB4InVCF' = p.allowPlainB4InVCF
    /\ hasPolicy' = p.hasPolicy
    /\ curScore' = p.curScore
    /\ curPolicyScore' = p.curPolicyScore
    /\ maxPolicyScore' = p.maxPolicyScore
    /\ moves' = p.moves
    /\ curMove' = p.curMove
    /\ endMove' = p.endMove
    /\ ops' = p.ops

NoArgs ==
    [ttMove |-> PosNONE, depth |-> 0, previousSelfP4 |-> <<P4_NONE, P4_NONE>>,
     mainHistory |-> "null", counterMoveHistory |-> "null",
     continuationHistory |-> "null"]

InitWith(b, t) ==
    /\ board = b
    /\ tables = t
    /\ kind = "NEW"
    /\ args = NoArgs
    /\ yields = <<>>
    /\ stage = INDETERMINATE
    /\ rule = board.rule
    /\ ttMove = INDETERMINATE
    /\ allowPlainB4InVCF = FALSE
    /\ hasPolicy = FALSE
    /\ curScore = INDETERMINATE
    /\ curPolicyScore = INDETERMINATE
    /\ maxPolicyScore = INDETERMINATE
    /\ moves = <<>>
    /\ curMove = INDETERMINATE
    /\ endMove = INDETERMINATE
    /\ ops = <<>>
    /\ dataSource = "none"
    /\ delivered = <<>>

InitOver(b) == InitWith(b, ZeroTables(b.n))

\* Every board of BoardCells cells over the profiles of its side and rule.
Init ==
    \E side \in Colors, r \in Rules :
        \E profs \in [1 .. BoardCells -> TopoProfiles(side, r)] :
            \E g \in GateChoices(profs, side, r), f \in FilterChoices(profs, side) :
                InitOver(MakeBoard(BoardCells, side, r, profs, TopoScore, g, f))

ConstructRoot ==
    /\ kind = "NEW"
    /\ kind' = "ROOT"
    /\ args' = NoArgs
    /\ Install(RootPicker(board, board.rule))
    /\ UNCHANGED <<board, tables, yields, dataSource, delivered>>

ConstructMain ==
    /\ kind = "NEW"
    /\ \E tt \in {PosNONE} \cup Cells(board) :
          /\ args' = [NoArgs EXCEPT !.ttMove = tt, !.mainHistory = "given",
                                    !.counterMoveHistory = "given",
                                    !.continuationHistory = "given"]
          /\ Install(MainPicker(board, board.rule, tt))
    /\ kind' = "MAIN"
    /\ UNCHANGED <<board, tables, yields, dataSource, delivered>>

ConstructQVCF ==
    /\ kind = "NEW"
    /\ \E tt \in {PosNONE} \cup Cells(board), in \in QVCFInputs :
          /\ args' = [NoArgs EXCEPT !.ttMove = tt, !.depth = in[1],
                                    !.previousSelfP4 = in[2],
                                    !.counterMoveHistory = "indeterminate"]
          /\ Install(QVCFPicker(board, board.rule, tt, in[1], in[2]))
    /\ kind' = "QVCF"
    /\ UNCHANGED <<board, tables, yields, dataSource, delivered>>

NoneCount(ys) == Cardinality({i \in DOMAIN ys : ys[i] = PosNONE})

\* One call of operator() on the constructed picker.
Call ==
    /\ kind # "NEW"
    /\ NoneCount(yields) <= MaxCallsAfterNone
    /\ \E o \in Operator(Picker, board, tables) :
          /\ Install(o.p)
          /\ yields' = Append(yields, o.ret)
    /\ UNCHANGED <<board, tables, kind, args, dataSource, delivered>>

Next == ConstructRoot \/ ConstructMain \/ ConstructQVCF \/ Call

Spec == Init /\ [][Next]_vars

\* Every block layout of MAX_MOVES cells, under each of the static scores.
InitWide ==
    \E side \in Colors, r \in {FREESTYLE, RENJU} :
        \E l \in WideLayouts(side, r), sc \in WideScores :
            InitOver(MakeBoard(MAX_MOVES, side, r,
                               [i \in 1 .. MAX_MOVES |->
                                  WideProfile(side, l.o, l.f, l.d, l.forb, i)],
                               sc, TRUE, FALSE))

SpecWide == InitWide /\ [][Next]_vars

(***************************************************************************)
(* Boards and tables for the claims about scoring: Black to move, a last   *)
(* move on the board or none, an evaluator or none, history tables with    *)
(* negative and positive entries, a counter move recorded or not.          *)
(***************************************************************************)
\* <<pattern4[self], pattern4[oppo]>> of the empty cells, self being Black.
ScorePairs ==
    {<<P4_NONE, P4_NONE>>, <<D_BLOCK4_PLUS, P4_NONE>>, <<E_BLOCK4, B_FLEX4>>,
     <<H_FLEX3, C_BLOCK4_FLEX3>>, <<P4_NONE, A_FIVE>>}
ScoreProfiles == {OccupiedProfile} \cup {EmptyProfile(pr, FALSE) : pr \in ScorePairs}

\* Board::getLastMove(): none, or the first stone on the board.
LastMoveChoices(profs) ==
    LET occupied == {i \in DOMAIN profs : ~profs[i].empty}
    IN  {PosNONE} \cup {i \in occupied : \A j \in occupied : i <= j}

\* The evaluator's policy per cell: rising with the cell, or negative throughout.
PolicyLayouts(n) == {[i \in 1 .. n |-> 2 * i], [i \in 1 .. n |-> -i]}

\* mainHistory[self]: zero; negative entries that a division and a shift round
\* differently; positive entries rising with the cell.
HistLayouts(n) ==
    {[i \in 1 .. n |-> [HIST_ATTACK |-> 0, HIST_QUIET |-> 0]],
     [i \in 1 .. n |-> [HIST_ATTACK |-> -129, HIST_QUIET |-> -1]],
     [i \in 1 .. n |-> [HIST_ATTACK |-> 128 * i, HIST_QUIET |-> 256 * i + 255]]}
\* mainHistory[oppo], which the scorer does not read.
OtherHist(n) == [i \in 1 .. n |-> [HIST_ATTACK |-> 1280, HIST_QUIET |-> 2560]]

\* counterMoveHistory[oppo][last move]: one of the first two cells, with the
\* pattern it was recorded with.
CounterChoices(n, last) ==
    IF last = PosNONE THEN {[pos |-> PosNONE, p4 |-> P4_NONE]}
    ELSE [pos : {i \in 1 .. n : i <= 2}, p4 : {P4_NONE, E_BLOCK4}]
\* The entries of the counter-move table that the scorer does not read.
OtherCounter(n) == [pos |-> n, p4 |-> P4_NONE]

\* The slices continuationHistory[0], [1], [3], [5] the commented-out code names.
ContSlices == {0, 1, 3, 5}
\* Continuation history slices with every entry at least 2048 * k.
ContLayout(n, k) == [sl \in ContSlices |-> [i \in 1 .. n |-> 2048 * (k + i) + sl]]

MakeTables(n, side, last, ev, pol, hist, cm) ==
    [evaluator |-> ev,
     policy |-> pol,
     continuationHistory |-> ContLayout(n, 1),
     mainHistory |-> [c \in Colors |-> IF c = side THEN hist ELSE OtherHist(n)],
     counterMove |-> [c \in Colors |->
                        [i \in 1 .. n |-> IF c = Opponent(side) /\ i = last THEN cm
                                          ELSE OtherCounter(n)]]]

EvaluatorChoices(n) ==
    {<<FALSE, [i \in 1 .. n |-> 0]>>} \cup {<<TRUE, pol>> : pol \in PolicyLayouts(n)}

InitScore ==
    \E profs \in [1 .. BoardCells -> ScoreProfiles] :
        \E f \in FilterChoices(profs, BLACK), last \in LastMoveChoices(profs) :
            \E ev \in EvaluatorChoices(BoardCells), hist \in HistLayouts(BoardCells),
               cm \in CounterChoices(BoardCells, last) :
                InitWith([MakeBoard(BoardCells, BLACK, FREESTYLE, profs, TopoScore, TRUE, f)
                            EXCEPT !.lastMove = last],
                         MakeTables(BoardCells, BLACK, last, ev[1], ev[2], hist, cm))

SpecScore == InitScore /\ [][Next]_vars

(***************************************************************************)
(* fastPartialSort on its own, applied once and then once more to its own  *)
(* result: any buffer of up to MAX_MOVES moves with scores in SortScores,  *)
(* the first move of another position than the others, so that moves with *)
(* equal scores can be told apart.  The limit is varied where the sorter   *)
(* reads it, in the insertion sort.                                        *)
(***************************************************************************)
SortScores == {-1, 0, 1}
SortLimits == {0, 1}
SortLimitsFor(n) == IF n <= InsertionSortLimit THEN SortLimits ELSE {0}
SortInput(n, f) ==
    [i \in 1 .. n |-> [pos |-> IF i = 1 THEN 2 ELSE 1, score |-> f[i], rawScore |-> f[i]]]

InitSort ==
    /\ board = "none"
    /\ tables = "none"
    /\ kind = "SORTER"
    /\ \E n \in 0 .. MAX_MOVES :
          \E f \in [1 .. n -> SortScores], l \in SortLimitsFor(n) :
              /\ args = [limit |-> l]
              /\ moves = SortInput(n, f)
    /\ yields = moves
    /\ stage = INDETERMINATE
    /\ rule = FREESTYLE
    /\ ttMove = PosNONE
    /\ allowPlainB4InVCF = FALSE
    /\ hasPolicy = FALSE
    /\ curScore = INDETERMINATE
    /\ curPolicyScore = INDETERMINATE
    /\ maxPolicyScore = INDETERMINATE
    /\ curMove = 0
    /\ endMove = Len(moves)
    /\ ops = <<>>
    /\ dataSource = "none"
    /\ delivered = <<>>

\* fastPartialSort(moves, moves + endMove, limit); `yields` keeps the input.
SortCall ==
    /\ kind = "SORTER"
    /\ ops = <<>>
    /\ moves' \in FastPartialSort(moves, args.limit)
    /\ ops' = <<SortOp>>
    /\ UNCHANGED <<board, tables, kind, stage, rule, ttMove, allowPlainB4InVCF, hasPolicy,
                   curScore, curPolicyScore, maxPolicyScore, curMove, endMove, args,
                   yields, dataSource, delivered>>

\* fastPartialSort(moves, moves + endMove, limit) on the range it has sorted.
SortAgain ==
    /\ kind = "SORTER"
    /\ ops = <<SortOp>>
    /\ moves' \in FastPartialSort(moves, args.limit)
    /\ ops' = <<SortOp, SortOp>>
    /\ UNCHANGED <<board, tables, kind, stage, rule, ttMove, allowPlainB4InVCF, hasPolicy,
                   curScore, curPolicyScore, maxPolicyScore, curMove, endMove, args,
                   yields, dataSource, delivered>>

SpecSort == InitSort /\ [][SortCall \/ SortAgain]_vars

(***************************************************************************)
(* The dataset readers.  A file is the number of entries it holds; an      *)
(* entry is named by its file and its index in the file.  Of an entry's    *)
(* content only one fact is kept: whether its vectors were moved out.      *)
(***************************************************************************)
NoEntry == [file |-> 0, idx |-> 0, moved |-> FALSE]
EntriesOf(files, f) == [i \in 1 .. files[f] |-> [file |-> f, idx |-> i, moved |-> FALSE]]

\* KatagoNumpyDataset::DataSource::nextFile()
KatagoNextFile(d) ==
    LET d0 == [d EXCEPT !.nextEntryIdx = 0]
    IN  IF d0.nextFileIdx = Len(d0.filenames) THEN [ret |-> FALSE, d |-> d0]
        ELSE [ret |-> TRUE,
              d |-> [d0 EXCEPT !.entries = EntriesOf(d0.filenames, d0.nextFileIdx + 1),
                               !.nextFileIdx = @ + 1]]

\* KatagoNumpyDataset::DataSource::nextEntry(rawDataEntry)
KatagoNextEntry(d) ==
    IF d.nextEntryIdx = Len(d.entries) THEN [ret |-> FALSE, raw |-> NoEntry, d |-> d]
    ELSE [ret |-> TRUE, raw |-> d.entries[d.nextEntryIdx + 1],
          d |-> [d EXCEPT !.entries[d.nextEntryIdx + 1].moved = TRUE,
                          !.nextEntryIdx = @ + 1]]

RECURSIVE KatagoLoop(_)
\* while (!dataSource->nextEntry(rawDataEntry)) if (!dataSource->nextFile()) return false;
KatagoLoop(d) ==
    LET e == KatagoNextEntry(d)
    IN  IF e.ret THEN e
        ELSE LET f == KatagoNextFile(e.d)
             IN  IF ~f.ret THEN [ret |-> FALSE, raw |-> NoEntry, d |-> f.d]
                 ELSE KatagoLoop(f.d)

\* KatagoNumpyDataset::next(entry).  Decoding a raw entry whose vectors were
\* moved out divides by a board size computed from their size, which is
\* unspecified and 0 in practice: the call returns true or does not return.
KatagoNext(d, withEntry) ==
    LET o == KatagoLoop(d)
    IN  IF ~o.ret THEN {[res |-> "false", raw |-> NoEntry, d |-> o.d]}
        ELSE {[res |-> "true", raw |-> o.raw, d |-> o.d]}
             \cup IF withEntry /\ o.raw.moved
                  THEN {[res |-> "undefined", raw |-> o.raw, d |-> o.d]}
                  ELSE {}

\* KatagoNumpyDataset::DataSource::reset()
KatagoReset(d) ==
    KatagoNextFile([d EXCEPT !.nextFileIdx = 0, !.nextEntryIdx = 0, !.entries = <<>>]).d

\* KatagoNumpyDataset::KatagoNumpyDataset(filenames, rule)
KatagoNew(files) ==
    KatagoNextFile([reader |-> "KATAGO", filenames |-> files, nextFileIdx |-> 0,
                    nextEntryIdx |-> 0, entries |-> <<>>]).d

\* PackedBinaryDataset::DataSource::next(); `read` counts the entries read from
\* the stream that is open.
PackedSourceNext(d) ==
    IF d.nextIdx = Len(d.files) THEN [ret |-> FALSE, d |-> d]
    ELSE [ret |-> TRUE, d |-> [d EXCEPT !.nextIdx = @ + 1, !.read = 0]]

\* PackedBinaryDataset::next(entry)
PackedNext(d, withEntry) ==
    LET atEof == d.read = d.files[d.nextIdx]
        s == IF atEof THEN PackedSourceNext(d) ELSE [ret |-> TRUE, d |-> d]
    IN  IF ~s.ret THEN {[res |-> "false", raw |-> NoEntry, d |-> s.d]}
        ELSE {[res |-> "true",
               raw |-> [file |-> s.d.nextIdx, idx |-> s.d.read + 1, moved |-> FALSE],
               d |-> [s.d EXCEPT !.read = @ + 1]]}

\* PackedBinaryDataset::DataSource::reset()
PackedReset(d) == PackedSourceNext([d EXCEPT !.nextIdx = 0, !.read = 0]).d

\* PackedBinaryDataset::PackedBinaryDataset(filenames)
PackedNew(files) ==
    PackedSourceNext([reader |-> "PACKED", files |-> files, nextIdx |-> 0, read |-> 0]).d

\* The file lists: one to MaxFiles files.  A .npz file may hold no entry; a
\* packed file holds one at least (its first four bytes are read on opening).
FileLists(least) ==
    UNION {[1 .. n -> least .. MaxEntries] : n \in 1 .. MaxFiles}

Calls == Cardinality({i \in DOMAIN delivered : delivered[i].ret # "reset"})
Resets == Cardinality({i \in DOMAIN delivered : delivered[i].ret = "reset"})
Running == \A i \in DOMAIN delivered : delivered[i].ret # "undefined"

\* Dataset::next(entry), with an entry to fill or with nullptr.
DatasetNext ==
    /\ kind = "DATASET" /\ Running /\ Calls < MaxCalls
    /\ \E withEntry \in BOOLEAN :
          \E o \in IF dataSource.reader = "KATAGO" THEN KatagoNext(dataSource, withEntry)
                    ELSE PackedNext(dataSource, withEntry) :
              /\ dataSource' = o.d
              /\ delivered' = Append(delivered, [ret |-> o.res, entry |-> o.raw])
    /\ UNCHANGED <<board, tables, kind, stage, rule, ttMove, allowPlainB4InVCF, hasPolicy,
                   curScore, curPolicyScore, maxPolicyScore, moves, curMove, endMove, args,
                   yields, ops>>

\* Dataset::reset()
DatasetReset ==
    /\ kind = "DATASET" /\ Running /\ Resets < MaxResets
    /\ dataSource' = IF dataSource.reader = "KATAGO" THEN KatagoReset(dataSource)
                     ELSE PackedReset(dataSource)
    /\ delivered' = Append(delivered, [ret |-> "reset", entry |-> NoEntry])
    /\ UNCHANGED <<board, tables, kind, stage, rule, ttMove, allowPlainB4InVCF, hasPolicy,
                   curScore, curPolicyScore, maxPolicyScore, moves, curMove, endMove, args,
                   yields, ops>>

InitData ==
    /\ \/ \E files \in FileLists(0) : dataSource = KatagoNew(files)
       \/ \E files \in FileLists(1) : dataSource = PackedNew(files)
    /\ delivered = <<>>
    /\ board = "none"
    /\ tables = "none"
    /\ kind = "DATASET"
    /\ args = NoArgs
    /\ yields = <<>>
    /\ stage = INDETERMINATE
    /\ rule = FREESTYLE
    /\ ttMove = PosNONE
    /\ allowPlainB4InVCF = FALSE
    /\ hasPolicy = FALSE
    /\ curScore = INDETERMINATE
    /\ curPolicyScore = INDETERMINATE
    /\ maxPolicyScore = INDETERMINATE
    /\ moves = <<>>
    /\ curMove = 0
    /\ endMove = 0
    /\ ops = <<>>

SpecData == InitData /\ [][DatasetNext \/ DatasetReset]_vars

(***************************************************************************)
(* Properties.                                                             *)
(***************************************************************************)
Constructed == kind \in {"ROOT", "MAIN", "QVCF"}
RenjuBlack == rule = RENJU /\ board.side = BLACK
\* The positions returned so far, NONE left out.
RECURSIVE NonNone(_)
NonNone(ys) ==
    IF ys = <<>> THEN <<>>
    ELSE (IF Head(ys) = PosNONE THEN <<>> ELSE <<Head(ys)>>) \o NonNone(Tail(ys))
Finished == yields # <<>> /\ Last(yields) = PosNONE
BufferPositions == {moves[i].pos : i \in DOMAIN moves}
OppoHas(p4) == P4Count(board, Oppo(board), p4) > 0
SelfHas(p4) == P4Count(board, Self(board), p4) > 0

\* C1: under Renju with Black to move, no call returns a position for which
\* checkForbiddenPoint is true, the position returned from a *_TT stage included.
C1_NoForbiddenYield ==
    (Constructed /\ RenjuBlack) =>
        \A i \in DOMAIN yields :
            yields[i] # PosNONE => ~CheckForbiddenPoint(board, yields[i])

\* C2: a TT move returned from a *_TT stage (the first call of a picker that
\* kept a TT move) is returned by no later call, however often the generated
\* buffer holds it.
C2_NoDuplicateTT ==
    (Constructed /\ ttMove # PosNONE /\ yields # <<>>) =>
        /\ yields[1] = ttMove
        /\ \A j \in 2 .. Len(yields) : yields[j] # ttMove

\* The TT move was returned, the buffer holds it twice, and the picker ran dry
\* after returning another move.
C2_Witness ==
    /\ Constructed /\ ttMove # PosNONE /\ Finished
    /\ Cardinality({i \in DOMAIN moves : moves[i].pos = ttMove}) >= 2
    /\ Len(NonNone(yields)) >= 2

C4_NoneTerminal ==
    [][(Constructed /\ PosNONE \in Range(yields)) =>
          /\ yields' = Append(yields, PosNONE)
          /\ stage = ALLMOVES /\ stage' = ALLMOVES
          /\ ops' = ops /\ moves' = moves]_vars

\* NONE was returned twice, after a buffer move had been returned.
C4_Witness ==
    /\ Constructed /\ NoneCount(yields) >= 2
    /\ Len(moves) >= 1 /\ Len(NonNone(yields)) >= 1

\* The stage family a main or QVCF picker starts in and the validity test of
\* its TT move, as the specification states them.
C5_Family ==
    IF OppoHas(A_FIVE) THEN DEFENDFIVE_TT
    ELSE IF kind = "QVCF" THEN QVCF_TT
    ELSE IF OppoHas(B_FLEX4) THEN DEFENDFOUR_TT
    ELSE IF OppoHas(C_BLOCK4_FLEX3) /\ (rule # RENJU \/ board.oppoCMoveValid)
         THEN DEFENDB4F3_TT
    ELSE MAIN_TT
C5_StageValid(family) ==
    LET c == CellAt(board, args.ttMove)
    IN  CASE family = DEFENDFIVE_TT -> c.pattern4[Oppo(board)] = A_FIVE
          [] family = QVCF_TT -> c.pattern4[Self(board)] >= E_BLOCK4
          [] family = DEFENDFOUR_TT ->
                \/ c.pattern4[BLACK] >= E_BLOCK4 \/ c.pattern4[BLACK] = FORBID
                \/ c.pattern4[WHITE] >= E_BLOCK4
          [] OTHER -> TRUE

\* C5: a main or QVCF picker returns the caller's TT move on its first call iff
\* the stage's validity test holds and the TT cell is empty; otherwise it stores
\* NONE, starts in the *_MOVES stage, and its first call generates and returns a
\* move of the generated list or NONE.
C5_TTGate ==
    kind \in {"MAIN", "QVCF"} =>
        LET tt == args.ttMove
            family == C5_Family
            ok == C5_StageValid(family) /\ IsEmpty(board, tt)
        IN  /\ ok => /\ ttMove = tt
                     /\ yields = <<>> => stage = family
                     /\ yields # <<>> => yields[1] = tt
            /\ ~ok => /\ ttMove = PosNONE
                      /\ yields = <<>> => stage = family + 1
                      /\ yields # <<>> =>
                            /\ yields[1] = PosNONE \/ yields[1] # tt
                            /\ yields[1] \in BufferPositions \cup {PosNONE}
                            /\ ops # <<>>

\* A main picker given an occupied cell as TT move has returned a generated move.
C5_Witness ==
    /\ kind = "MAIN" /\ args.ttMove # PosNONE /\ ~IsEmpty(board, args.ttMove)
    /\ yields # <<>> /\ yields[1] # PosNONE

\* A scoring pass has run on the buffer.
Scored == \E i \in DOMAIN ops : ops[i].op = "score"

\* C6: after a scored stage, of two positions returned one after the other from
\* ALLMOVES the first has score below 0 or a score at least that of the second,
\* whatever the length of the generated list.
C6_OrderedYields ==
    [][(/\ Constructed /\ Scored /\ stage = ALLMOVES /\ curMove >= 1
        /\ yields # <<>> /\ Last(yields) # PosNONE
        /\ yields' # yields /\ Last(yields') # PosNONE
        /\ curScore >= 0) => curScore' <= curScore]_vars

\* C7: fastPartialSort leaves the moves with score >= limit in a prefix, that
\* prefix in descending score order, and every later move with score < limit,
\* for every length up to MAX_MOVES.
C7_SortedPrefix ==
    (kind = "SORTER" /\ ops # <<>>) =>
        LET limit == args.limit
            q == Cardinality({i \in DOMAIN moves : moves[i].score >= limit})
        IN  /\ \A i \in 1 .. q : moves[i].score >= limit
            /\ \A i \in 1 .. q - 1 : moves[i].score >= moves[i + 1].score
            /\ \A i \in q + 1 .. Len(moves) : moves[i].score < limit

\* The set DEFEND_FIVE generation produces, less the points forbidden to Black.
C8_DefenceSet ==
    {i \in GenSet(board, "DEFEND_FIVE") :
        IsEmpty(board, i) /\ ~(RenjuBlack /\ CheckForbiddenPoint(board, i))}

\* C8 as claimed: with an opponent A_FIVE cell, the positions a main or QVCF
\* picker returns over its lifetime are the DEFEND_FIVE set less the forbidden
\* points, whether or not a TT move was accepted.
C8_FullDefenceSet ==
    (kind \in {"MAIN", "QVCF"} /\ Finished /\ OppoHas(A_FIVE)) =>
        Range(NonNone(yields)) = C8_DefenceSet

\* C8 as the code has it: without an accepted TT move the positions returned are
\* the DEFEND_FIVE set less the forbidden points; with one, the TT move alone,
\* an empty cell where the opponent makes five.
C8_DefenceOrTT ==
    (kind \in {"MAIN", "QVCF"} /\ Finished /\ OppoHas(A_FIVE)) =>
        IF ttMove = PosNONE THEN Range(NonNone(yields)) = C8_DefenceSet
        ELSE /\ Range(NonNone(yields)) = {ttMove}
             /\ IsEmpty(board, ttMove)
             /\ CellAt(board, ttMove).pattern4[Oppo(board)] = A_FIVE

\* The opponent has two A_FIVE cells, one was accepted as TT move, and the
\* picker ran dry.
C8_Witness ==
    /\ kind \in {"MAIN", "QVCF"} /\ P4Count(board, Oppo(board), A_FIVE) >= 2
    /\ ttMove # PosNONE /\ Finished

\* The generator calls the root dispatch makes, as the specification lists them.
C9_Calls ==
    IF SelfHas(A_FIVE) THEN <<"WINNING">>
    ELSE IF OppoHas(A_FIVE) THEN <<"DEFEND_FIVE">>
    ELSE IF SelfHas(B_FLEX4) THEN <<"WINNING">>
    ELSE IF OppoHas(B_FLEX4) THEN <<"DEFEND_FOUR|ALL", "VCF">>
    ELSE IF OppoHas(C_BLOCK4_FLEX3) /\ (rule # RENJU \/ board.oppoCMoveValid)
         THEN LET k == DefendB4F3Kind(rule)
              IN  IF Generate(board, k) = <<>> THEN <<k, "ALL">> ELSE <<k, "VCF">>
    ELSE <<"ALL">>

RECURSIVE C9_Concat(_)
C9_Concat(ks) ==
    IF ks = <<>> THEN <<>> ELSE Generate(board, Head(ks)) \o C9_Concat(Tail(ks))
\* What the listed calls leave in the buffer: a second call appends, except ALL
\* after an empty DEFEND_B4F3.
C9_Buffer == C9_Concat(C9_Calls)

RECURSIVE C9_Allowed(_)
\* The positions of a move list that ALLMOVES lets through at the root.
C9_Allowed(ms) ==
    IF ms = <<>> THEN <<>>
    ELSE (IF RenjuBlack /\ CheckForbiddenPoint(board, Head(ms).pos) THEN <<>>
          ELSE <<Head(ms).pos>>) \o C9_Allowed(Tail(ms))

\* C9: a root picker fills its buffer by the one case its priority order picks,
\* keeps stage ALLMOVES and no TT move, never scores or sorts, and returns the
\* buffer's moves in generation order.
C9_RootDispatch ==
    kind = "ROOT" =>
        /\ ops = [i \in DOMAIN C9_Calls |-> GenOp(C9_Calls[i])]
        /\ moves = C9_Buffer
        /\ stage = ALLMOVES /\ ttMove = PosNONE
        /\ \E n \in 0 .. Len(C9_Allowed(moves)) :
              NonNone(yields) = SubSeq(C9_Allowed(moves), 1, n)
        /\ Finished => NonNone(yields) = C9_Allowed(moves)

\* Both sides have an A_FIVE cell, on different cells, and the root picker ran
\* dry after returning a move.
C9_Witness ==
    /\ kind = "ROOT" /\ SelfHas(A_FIVE) /\ OppoHas(A_FIVE) /\ Finished
    /\ Len(yields) >= 2
    /\ \E i \in Cells(board) : IsEmpty(board, i) /\ i \notin BufferPositions

\* C10: a main picker facing an opponent B_FLEX4 (and no A_FIVE) with an accepted
\* TT move returns the TT move first and then only positions that DEFEND_FOUR or
\* VCF generation produces.
C10_OnlyDefences ==
    (kind = "MAIN" /\ OppoHas(B_FLEX4) /\ ~OppoHas(A_FIVE) /\ ttMove # PosNONE
       /\ yields # <<>>) =>
        /\ yields[1] = ttMove
        /\ \A j \in 2 .. Len(yields) :
              yields[j] # PosNONE =>
                  /\ IsEmpty(board, yields[j])
                  /\ yields[j] \in GenSet(board, "DEFEND_FOUR") \cup GenSet(board, "VCF")

\* Such a picker returned a second move and ran dry, on a board with an empty
\* cell outside both generated sets.
C10_Witness ==
    /\ kind = "MAIN" /\ OppoHas(B_FLEX4) /\ ~OppoHas(A_FIVE) /\ ttMove # PosNONE
    /\ Finished /\ Len(NonNone(yields)) >= 2
    /\ \E i \in Cells(board) :
          /\ IsEmpty(board, i)
          /\ i \notin GenSet(board, "DEFEND_FOUR") \cup GenSet(board, "VCF")

\* A scoring pass with the POLICY flag ran on a board that has an evaluator.
PolicyUsed ==
    /\ Constructed /\ tables.evaluator
    /\ \E i \in DOMAIN ops : ops[i].op = "score" /\ "POLICY" \in ops[i].arg

\* C11: after a scoring pass that used the evaluator, hasPolicy is true and
\* maxPolicyScore is the greatest rawScore of the buffer that was scored (every
\* rawScore being the evaluator's policy of the move); root and QVCF pickers,
\* pickers in the DEFENDFIVE family and pickers without an evaluator keep
\* hasPolicy false.
C11_PolicyParity ==
    /\ PolicyUsed =>
          /\ hasPolicy
          /\ \A i \in DOMAIN moves :
                moves[i].rawScore = tables.policy[moves[i].pos]
                  /\ moves[i].rawScore <= maxPolicyScore
          /\ moves # <<>> => \E i \in DOMAIN moves : moves[i].rawScore = maxPolicyScore
    /\ (Constructed /\ (kind \in {"ROOT", "QVCF"} \/ OppoHas(A_FIVE) \/ ~tables.evaluator))
          => ~hasPolicy

\* The evaluator scored a buffer of two moves with different policies, one of
\* them with a history term on top.
C11_Witness ==
    /\ PolicyUsed /\ Len(moves) >= 2
    /\ moves[1].rawScore # moves[2].rawScore
    /\ \E i \in DOMAIN moves : moves[i].score > maxPolicyScore

\* The flags of the scoring pass that ran, and the amounts a history entry is
\* raised by in the second run.
ScoredFlags == ops[CHOOSE i \in DOMAIN ops : ops[i].op = "score"].arg
HistoryRaises == {1, 127, 300}
HistoryKinds == {"HIST_ATTACK", "HIST_QUIET"}
\* The tables with mainHistory[self][pos][which] raised by d.
RaisedTables(pos, which, d) ==
    [tables EXCEPT !.mainHistory[Self(board)][pos][which] = @ + d]
\* Move i of the buffer as a second scoring pass with the same flags scores it
\* under the raised tables.
SecondRun(i, pos, which, d) ==
    ScoreOne(moves[i], ScoredFlags, board, RaisedTables(pos, which, d))

\* C12: scoring the same buffer again with MAIN_HISTORY and one history entry
\* of the side to move raised gives the move at that position a score not
\* smaller than before and every other move the same score and rawScore.
C12_HistoryMonotone ==
    (kind = "MAIN" /\ Scored /\ "MAIN_HISTORY" \in ScoredFlags) =>
        \A i \in DOMAIN moves :
            \A pos \in Cells(board), which \in HistoryKinds, d \in HistoryRaises :
                LET second == SecondRun(i, pos, which, d)
                IN  /\ second.pos = moves[i].pos
                    /\ second.rawScore = moves[i].rawScore
                    /\ IF moves[i].pos = pos THEN second.score >= moves[i].score
                       ELSE second.score = moves[i].score

\* A buffer of two positions was scored with MAIN_HISTORY, and raising one
\* entry raises the score of one move strictly.
C12_Witness ==
    /\ kind = "MAIN" /\ Scored /\ "MAIN_HISTORY" \in ScoredFlags
    /\ Cardinality(BufferPositions) >= 2
    /\ \E pos \in Cells(board), which \in HistoryKinds, d \in HistoryRaises :
          \E i \in DOMAIN moves : SecondRun(i, pos, which, d).score > moves[i].score

RECURSIVE QualifyingPrefixLen(_, _, _)
\* Length of the longest prefix of ms from index i on whose moves have score >= limit.
QualifyingPrefixLen(ms, limit, i) ==
    IF i > Len(ms) \/ ms[i].score < limit THEN i - 1
    ELSE QualifyingPrefixLen(ms, limit, i + 1)
QualifyingPrefix(ms, limit) == SubSeq(ms, 1, QualifyingPrefixLen(ms, limit, 1))
ScoresOf(ms) == [i \in DOMAIN ms |-> ms[i].score]
\* The step is the second application of the sorter.
SortingAgain == kind = "SORTER" /\ ops # <<>> /\ ops' # ops
\* The part of a range the sorter puts in order: the qualifying prefix, or the
\* first SortLimit moves of a range longer than SortLimit.
SortedPart(ms, limit) ==
    IF Len(ms) <= SortLimit THEN QualifyingPrefix(ms, limit) ELSE SubSeq(ms, 1, SortLimit)
MovesBag(ms) == [m \in Range(ms) |-> Cardinality({i \in DOMAIN ms : ms[i] = m})]

C14_Family ==
    IF \E i \in Cells(board) : IsEmpty(board, i)
                                /\ CellAt(board, i).pattern4[Oppo(board)] = A_FIVE
    THEN DEFENDFIVE_TT
    ELSE IF \E i \in Cells(board) : IsEmpty(board, i)
                                     /\ CellAt(board, i).pattern4[Oppo(board)] = B_FLEX4
    THEN DEFENDFOUR_TT
    ELSE IF /\ \E i \in Cells(board) :
                  IsEmpty(board, i)
                    /\ CellAt(board, i).pattern4[Oppo(board)] = C_BLOCK4_FLEX3
            /\ (rule # RENJU \/ board.oppoCMoveValid)
    THEN DEFENDB4F3_TT
    ELSE MAIN_TT
C14_TTValid(family) ==
    LET p == CellAt(board, args.ttMove).pattern4
    IN  CASE family = DEFENDFIVE_TT -> p[Oppo(board)] = A_FIVE
          [] family = DEFENDFOUR_TT ->
                p[BLACK] >= E_BLOCK4 \/ p[BLACK] = FORBID \/ p[WHITE] >= E_BLOCK4
          [] OTHER -> TRUE
\* The generation a family's *_MOVES stage starts with.
C14_FirstGeneration(family) ==
    CASE family = DEFENDFIVE_TT -> "DEFEND_FIVE"
      [] family = DEFENDFOUR_TT -> "DEFEND_FOUR"
      [] family = DEFENDB4F3_TT ->
            (CASE rule = STANDARD -> "DEFEND_B4F3|RULE_STANDARD"
               [] rule = RENJU -> "DEFEND_B4F3|RULE_RENJU"
               [] OTHER -> "DEFEND_B4F3|RULE_FREESTYLE")
      [] OTHER -> "ALL"

\* C14: a main picker is in the family its opponent's threats select by the
\* priority A_FIVE, B_FLEX4, C_BLOCK4_FLEX3 with the rule gate, else MAIN; it
\* keeps the TT move iff the family's test holds of the TT cell and the cell is
\* empty; the threats of the side to move play no part.
C14_MainDispatch ==
    kind = "MAIN" =>
        LET family == C14_Family
            kept == C14_TTValid(family) /\ IsEmpty(board, args.ttMove)
        IN  /\ ttMove = IF kept THEN args.ttMove ELSE PosNONE
            /\ yields = <<>> => stage = family + (IF kept THEN 0 ELSE 1)
            /\ (yields # <<>> /\ kept) => yields[1] = args.ttMove
            /\ stage \in {family, family + 1, ALLMOVES}
            /\ ops # <<>> => ops[1] = GenOp(C14_FirstGeneration(family))

\* The side to move has an A_FIVE cell of its own, the opponent an open four
\* and no five, and the main picker ran its DEFENDFOUR generation.
C14_Witness ==
    /\ kind = "MAIN" /\ SelfHas(A_FIVE) /\ OppoHas(B_FLEX4) /\ ~OppoHas(A_FIVE)
    /\ ops # <<>> /\ ops[1] = GenOp("DEFEND_FOUR") /\ Len(NonNone(yields)) >= 1

\* The operations a QVCF picker may run: DEFEND_FIVE generation, or the
\* neighbourhood VCF generation with BALANCED scoring and the sort.
C15_QVCFOps ==
    {GenOp("DEFEND_FIVE"), [op |-> "generateNeighbors", arg |-> "VCF"],
     [op |-> "generateNeighbors", arg |-> "VCF|COMB"],
     [op |-> "score", arg |-> BALANCED], SortOp}

\* C15: a QVCF picker is in the DEFENDFIVE family when the opponent has an
\* A_FIVE cell and in the QVCF family otherwise, where it keeps the TT move iff
\* the TT cell has pattern4[self] >= E_BLOCK4 and is empty; facing a five it
\* never runs QVCF_MOVES, and it never runs MAIN_MOVES, DEFENDFOUR_MOVES or
\* DEFENDB4F3_MOVES.
C15_QVCFDispatch ==
    kind = "QVCF" =>
        LET five == \E i \in Cells(board) :
                       IsEmpty(board, i) /\ CellAt(board, i).pattern4[Oppo(board)] = A_FIVE
            family == IF five THEN DEFENDFIVE_TT ELSE QVCF_TT
            p == CellAt(board, args.ttMove).pattern4
            kept == /\ IF five THEN p[Oppo(board)] = A_FIVE ELSE p[Self(board)] >= E_BLOCK4
                    /\ IsEmpty(board, args.ttMove)
        IN  /\ ttMove = IF kept THEN args.ttMove ELSE PosNONE
            /\ yields = <<>> => stage = family + (IF kept THEN 0 ELSE 1)
            /\ stage \in {family, family + 1, ALLMOVES}
            /\ Range(ops) \subseteq C15_QVCFOps
            /\ five => \A i \in DOMAIN ops : ops[i].op = "generate"
            /\ ~five => \A i \in DOMAIN ops : ops[i].op # "generate"

\* A QVCF picker facing a five, with a four of its own on the board, generated
\* the defences, returned one and ran dry.
C15_Witness ==
    /\ kind = "QVCF" /\ OppoHas(A_FIVE) /\ SelfHas(E_BLOCK4)
    /\ ops = <<GenOp("DEFEND_FIVE")>> /\ Finished /\ Len(NonNone(yields)) >= 1

\* The generator QVCF_MOVES uses, as the specification states the choice.
C16_Variant ==
    IF args.depth < DEPTH_QVCF_FULL
       /\ ~(args.previousSelfP4[1] >= D_BLOCK4_PLUS /\ args.previousSelfP4[2] >= D_BLOCK4_PLUS)
    THEN "VCF|COMB" ELSE "VCF"

\* C16: a QVCF picker generates with VCF|COMB exactly when depth is below
\* DEPTH_QVCF_FULL and the two previous patterns are not both >= D_BLOCK4_PLUS,
\* with plain VCF otherwise; allowPlainB4InVCF says which from construction on,
\* and is false in root and main pickers.
C16_VariantChoice ==
    /\ kind = "QVCF" =>
          /\ allowPlainB4InVCF <=> (C16_Variant = "VCF")
          /\ \A i \in DOMAIN ops :
                ops[i].op = "generateNeighbors" =>
                    /\ ops[i].arg = C16_Variant
                    /\ \A j \in DOMAIN moves :
                          CellAt(board, moves[j].pos).pattern4[Self(board)]
                            >= IF C16_Variant = "VCF" THEN E_BLOCK4 ELSE D_BLOCK4_PLUS
    /\ kind \in {"ROOT", "MAIN"} => ~allowPlainB4InVCF

\* A QVCF picker below the full depth, whose previous patterns are not both
\* >= D_BLOCK4_PLUS, generated with VCF|COMB and left a plain four in the window ungenerated.
C16_Witness ==
    /\ kind = "QVCF" /\ C16_Variant = "VCF|COMB"
    /\ \E i \in DOMAIN args.previousSelfP4 : args.previousSelfP4[i] >= D_BLOCK4_PLUS
    /\ \E i \in DOMAIN ops : ops[i].op = "generateNeighbors"
    /\ \E i \in Cells(board) :
          /\ IsEmpty(board, i) /\ CellAt(board, i).pattern4[Self(board)] = E_BLOCK4
          /\ InWindow(board.selfLast, i)
          /\ i \notin BufferPositions

\* A main picker whose first generation was DEFEND_B4F3.
C17_InB4F3 == kind = "MAIN" /\ ops # <<>> /\ ops[1] = GenOp(DefendB4F3Kind(rule))
C17_NoDefence == Generate(board, DefendB4F3Kind(rule)) = <<>>
\* The pickers a MAIN_MOVES stage leaves from a fresh picker with this ttMove.
C17_AsMainMoves ==
    MainMoves([Blank(rule) EXCEPT !.stage = MAIN_MOVES, !.ttMove = ttMove], board, tables)
\* What the calls after the TT stage returned.
C17_AfterTT == IF args.ttMove # PosNONE /\ ttMove = args.ttMove THEN Tail(yields) ELSE yields
\* The first k returns of a picker q left by MAIN_MOVES.
RECURSIVE C17_YieldsOf(_, _)
C17_YieldsOf(q, k) ==
    IF k = 0 THEN <<>>
    ELSE LET o == PickNextMove(q, board) IN <<o.ret>> \o C17_YieldsOf(o.p, k - 1)

\* C17: a main picker whose DEFEND_B4F3 generation is empty generates ALL,
\* scores with BALANCED|POLICY|MAIN_HISTORY|COUNTER_MOVE|CONT_HISTORY, sorts at
\* 0 and returns what a picker in MAIN_MOVES with the same ttMove returns; when
\* the generation is not empty VCF is appended and scoring has no COUNTER_MOVE.
C17_B4F3Fallback ==
    C17_InB4F3 =>
        IF C17_NoDefence
        THEN /\ ops = <<GenOp(DefendB4F3Kind(rule)), GenOp("ALL"),
                        [op |-> "score", arg |-> MainMovesFlags], SortOp>>
             /\ \E q \in C17_AsMainMoves :
                   /\ moves = q.moves
                   /\ hasPolicy = q.hasPolicy /\ maxPolicyScore = q.maxPolicyScore
                   /\ C17_AfterTT = C17_YieldsOf(q, Len(C17_AfterTT))
        ELSE /\ ops = <<GenOp(DefendB4F3Kind(rule)), GenOp("VCF"),
                        [op |-> "score", arg |-> DefendFlags], SortOp>>
             /\ "COUNTER_MOVE" \notin ScoredFlags
             /\ \A j \in DOMAIN moves :
                   moves[j] = ScoreOne(moves[j], DefendFlags, board, tables)

\* The DEFEND_B4F3 generation was empty, the fallback gave a move the counter
\* move bonus, and a move was returned after the TT stage.
C17_Witness ==
    /\ C17_InB4F3 /\ C17_NoDefence
    /\ \E j \in DOMAIN moves :
          moves[j].score # ScoreOne(moves[j], DefendFlags, board, tables).score
    /\ Len(NonNone(C17_AfterTT)) >= 1

\* C18: after a call that returns a position, the TT move included, curScore
\* and curPolicyScore are the score and rawScore of that position in the
\* buffer; a call that returns NONE changes neither.
C18_CurScoresTrack ==
    /\ [](yields # <<>> /\ Last(yields) # PosNONE =>
             \E j \in DOMAIN moves :
                /\ moves[j].pos = Last(yields)
                /\ curScore = moves[j].score /\ curPolicyScore = moves[j].rawScore)
    /\ [][(Len(yields') > Len(yields) /\ Last(yields') = PosNONE) =>
             (curScore' = curScore /\ curPolicyScore' = curPolicyScore)]_vars

\* a / d rounded toward zero.
C19_Truncated(a, d) == (a \div d) + (IF a < 0 /\ a % d # 0 THEN 1 ELSE 0)
\* a >> k for a two's complement a.
C19_Shifted(a, k) == a \div (2 ^ k)
\* The main history entry scoreMoves reads for a buffer position.
C19_Attacking(pos) == CellAt(board, pos).pattern4[Self(board)] >= H_FLEX3
C19_Entry(pos) ==
    IF C19_Attacking(pos) THEN tables.mainHistory[Self(board)][pos].HIST_ATTACK
    ELSE tables.mainHistory[Self(board)][pos].HIST_QUIET
\* The statement of the counter move bonus for a buffer position.
C20_Gets(pos) ==
    /\ board.lastMove \in Cells(board)
    /\ tables.counterMove[Oppo(board)][board.lastMove].pos = pos
    /\ tables.counterMove[Oppo(board)][board.lastMove].p4
          <= CellAt(board, pos).pattern4[Self(board)]
C20_Bonus(pos) == IF "COUNTER_MOVE" \in ScoredFlags /\ C20_Gets(pos) THEN 21 ELSE 0

\* C19 as stated: the MAIN_HISTORY contribution is the ATTACK entry >> 7 for a
\* cell with pattern4[self] >= H_FLEX3 and the QUIET entry >> 8 otherwise,
\* rounding toward negative infinity.
C19_ShiftedHistory ==
    (Scored /\ "MAIN_HISTORY" \in ScoredFlags) =>
        \A j \in DOMAIN moves :
            moves[j].score - moves[j].rawScore - C20_Bonus(moves[j].pos)
              = C19_Shifted(C19_Entry(moves[j].pos),
                            IF C19_Attacking(moves[j].pos) THEN 7 ELSE 8)

\* C19 amended: the MAIN_HISTORY contribution is the ATTACK entry / 128 for a
\* cell with pattern4[self] >= H_FLEX3 and the QUIET entry / 256 otherwise,
\* rounding toward zero; it equals the shift for entries >= 0 and for negative
\* multiples of the divisor.
C19_TruncatedHistory ==
    (Scored /\ "MAIN_HISTORY" \in ScoredFlags) =>
        \A j \in DOMAIN moves :
            LET e == C19_Entry(moves[j].pos)
                k == IF C19_Attacking(moves[j].pos) THEN 7 ELSE 8
                h == moves[j].score - moves[j].rawScore - C20_Bonus(moves[j].pos)
            IN  /\ h = C19_Truncated(e, 2 ^ k)
                /\ (e >= 0 \/ e % (2 ^ k) = 0) => h = C19_Shifted(e, k)

\* A returned move whose history entry is negative and not a multiple of the
\* divisor, in the attacking and in the quiet case.
C19_Witness ==
    /\ Scored /\ "MAIN_HISTORY" \in ScoredFlags
    /\ \E j \in DOMAIN moves :
          /\ C19_Attacking(moves[j].pos) /\ C19_Entry(moves[j].pos) = -129
          /\ moves[j].pos \in Range(yields)
    /\ \E j \in DOMAIN moves :
          /\ ~C19_Attacking(moves[j].pos) /\ C19_Entry(moves[j].pos) = -1

C21_Contents ==
    {[sl \in ContSlices |-> [i \in Cells(board) |-> 0]],
     ContLayout(board.n, 3),
     [sl \in ContSlices |-> [i \in Cells(board) |-> -4097 * i]]}

\* C21: a scoring pass with CONT_HISTORY gives every move the score and
\* rawScore that the pass with the same flags less CONT_HISTORY gives it,
\* whatever the continuation history slices hold.
C21_ContHistoryInert ==
    (Scored /\ "CONT_HISTORY" \in ScoredFlags) =>
        \A j \in DOMAIN moves :
            /\ moves[j] = ScoreOne(moves[j], ScoredFlags \ CONT_HISTORY, board, tables)
            /\ \A ch \in C21_Contents :
                  ScoreOne(moves[j], ScoredFlags, board,
                           [tables EXCEPT !.continuationHistory = ch])
                    = ScoreOne(moves[j], ScoredFlags \ CONT_HISTORY, board,
                               [tables EXCEPT !.continuationHistory = ch])

\* A move whose continuation history entries are all at least 2048 was scored
\* with CONT_HISTORY and returned.
C21_Witness ==
    /\ Scored /\ "CONT_HISTORY" \in ScoredFlags
    /\ \E j \in DOMAIN moves :
          /\ \A sl \in ContSlices : tables.continuationHistory[sl][moves[j].pos] >= 2048
          /\ moves[j].pos \in Range(yields)

\* C22: from the end of construction on, also in a main or QVCF picker that
\* has not run its generation stage yet, moves <= curMove <= endMove <=
\* moves + MAX_MOVES (curMove and endMove counted as offsets into moves).
C22_PointersInBuffer ==
    Constructed => (0 <= curMove /\ curMove <= endMove /\ endMove <= MAX_MOVES)

\* C23: the moves one stage writes into the buffer are at most MAX_MOVES, also
\* when the stage appends the output of a second generator to the first.
C23_StageFitsBuffer ==
    Constructed => Len(moves) <= MAX_MOVES

\* The eleven declared stages.
C24_Declared ==
    {MAIN_TT, MAIN_MOVES, DEFENDFIVE_TT, DEFENDFIVE_MOVES, DEFENDFOUR_TT, DEFENDFOUR_MOVES,
     DEFENDB4F3_TT, DEFENDB4F3_MOVES, QVCF_TT, QVCF_MOVES, ALLMOVES}
\* The picker is about to run the case of stage st, or has run its generation g.
C24_Enters(st, g) ==
    kind \in {"MAIN", "QVCF"} /\ (stage = st \/ GenOp(g) \in Range(ops))

\* C24: on an unchanged board the assertions at the head of the stage cases
\* hold: MAIN_MOVES is entered, directly or by the fallback from
\* DEFENDB4F3_MOVES, only without an opponent A_FIVE or B_FLEX4 cell,
\* DEFENDFIVE_MOVES only with an opponent A_FIVE cell, DEFENDFOUR_MOVES only
\* with an opponent B_FLEX4 cell, DEFENDB4F3_MOVES only with an opponent
\* C_BLOCK4_FLEX3 cell; the stage is always one of the eleven declared.
C24_StageAssertions ==
    Constructed =>
        /\ stage \in C24_Declared
        /\ C24_Enters(MAIN_MOVES, "ALL") => (~OppoHas(A_FIVE) /\ ~OppoHas(B_FLEX4))
        /\ C24_Enters(DEFENDFIVE_MOVES, "DEFEND_FIVE") => OppoHas(A_FIVE)
        /\ C24_Enters(DEFENDFOUR_MOVES, "DEFEND_FOUR") => OppoHas(B_FLEX4)
        /\ C24_Enters(DEFENDB4F3_MOVES, DefendB4F3Kind(rule)) => OppoHas(C_BLOCK4_FLEX3)

\* A main picker entered MAIN_MOVES by the fallback from DEFENDB4F3_MOVES, with
\* a five of the side to move on the board, and returned a move.
C24_Witness ==
    /\ kind = "MAIN" /\ Len(ops) >= 2
    /\ ops[1] = GenOp(DefendB4F3Kind(rule)) /\ ops[2] = GenOp("ALL")
    /\ SelfHas(A_FIVE) /\ Len(NonNone(yields)) >= 1

\* The generation operations of ops, in order.
C25_Generations == SelectSeq(ops, LAMBDA o : o.op \in {"generate", "generateNeighbors"})
C25_Count(name) == Cardinality({i \in DOMAIN ops : ops[i].op = name})
\* One generation stage ran at most: one generator, or one with VCF appended,
\* or the DEFEND_B4F3 generation that came out empty followed by ALL.
C25_OneGenerationStage ==
    /\ C25_Count("score") <= 1 /\ C25_Count("sort") <= 1
    /\ Len(C25_Generations) <= 2
    /\ Len(C25_Generations) = 2 =>
          \/ C25_Generations[2] = GenOp("VCF")
          \/ /\ C25_Generations[1] = GenOp(DefendB4F3Kind(rule))
             /\ C25_Generations[2] = GenOp("ALL")
             /\ Generate(board, DefendB4F3Kind(rule)) = <<>>

\* C25: a call in a *_TT stage leaves the picker in the *_MOVES stage one
\* above; after its second call every picker is in ALLMOVES and stays there;
\* no call enters a *_TT stage; a picker runs one generation stage at most,
\* the fallback from DEFENDB4F3_MOVES to MAIN_MOVES apart.
C25_StageProgression ==
    /\ [](Constructed =>
             /\ Len(yields) >= 2 => stage = ALLMOVES
             /\ C25_OneGenerationStage
             /\ stage # ALLMOVES => ops = <<>>)
    /\ [][Constructed =>
             /\ stage \in TTStages =>
                   (stage' = stage + 1 /\ stage' \notin TTStages /\ ops' = ops)
             /\ stage' \in TTStages => stage' = stage
             /\ stage = ALLMOVES => (stage' = ALLMOVES /\ ops' = ops)]_vars

\* A main picker returned its TT move, then ran DEFENDB4F3_MOVES with the
\* fallback to MAIN_MOVES in its second call, and was called a third time.
C25_Witness ==
    /\ kind = "MAIN" /\ Len(yields) >= 3 /\ stage = ALLMOVES
    /\ yields[1] = args.ttMove /\ args.ttMove # PosNONE
    /\ Len(C25_Generations) = 2 /\ C25_Generations[2] = GenOp("ALL")

\* How often position x was returned, and how often it is in the buffer.
C26_Returned(x) == Cardinality({i \in DOMAIN yields : yields[i] = x})
C26_Buffered(x) == Cardinality({i \in DOMAIN moves : moves[i].pos = x})
\* The positions a recorded generation emitted.
C26_Emitted(o) ==
    IF o.op = "generate" THEN GenSet(board, o.arg)
    ELSE {x \in GenSet(board, o.arg) :
             board.selfLast \in Cells(board) /\ InWindow(board.selfLast, x)}

\* C26 as stated: no position is returned twice by one picker, the stages that
\* append a second generator's output to the first included.
C26_NoRepeat ==
    Constructed => \A x \in Cells(board) : C26_Returned(x) <= 1

\* C26 amended: a position is in the buffer once for each recorded generation
\* that emits it; it is returned at most once after a single generation, at
\* most once if it is the accepted TT move, never more often than it is in
\* the buffer, and so at most twice.
C26_RepeatOnlyIfGeneratedTwice ==
    Constructed =>
        LET gens == C25_Generations
            emitted == [i \in DOMAIN gens |-> C26_Emitted(gens[i])]
        IN  \A x \in Cells(board) :
                LET buffered == C26_Buffered(x)
                    returned == C26_Returned(x)
                IN  /\ buffered
                          = Cardinality({i \in DOMAIN gens :
                                            IsEmpty(board, x) /\ x \in emitted[i]})
                    /\ returned <= IF x = ttMove THEN 1 ELSE buffered
                    /\ Len(gens) <= 1 => returned <= 1
                    /\ returned <= 2

\* A main picker appended a second generation, a cell that both generations
\* emit was returned twice, and the picker ran dry.
C26_Witness ==
    /\ kind = "MAIN" /\ Len(C25_Generations) = 2
    /\ \E x \in Cells(board) : C26_Buffered(x) = 2 /\ C26_Returned(x) = 2
    /\ Finished

\* The table a scoring flag reads, as the constructor stored it.
C27_TableOf(flag) ==
    CASE flag = "MAIN_HISTORY" -> args.mainHistory
      [] flag = "COUNTER_MOVE" -> args.counterMoveHistory
      [] flag = "CONT_HISTORY" -> args.continuationHistory
\* The stages whose scoring pass reads a history table.
C27_HistoryStages == {MAIN_MOVES, DEFENDFOUR_MOVES, DEFENDB4F3_MOVES}

\* C27: a scoring pass with MAIN_HISTORY, COUNTER_MOVE or CONT_HISTORY runs
\* only in a picker that was given the table; root and QVCF pickers, which
\* were given none, run no such pass and are never in MAIN_MOVES,
\* DEFENDFOUR_MOVES or DEFENDB4F3_MOVES, nor in their TT stages.
C27_NoTableUnread ==
    Constructed =>
        /\ \A i \in DOMAIN ops :
              ops[i].op = "score" =>
                  \A flag \in ops[i].arg \cap {"MAIN_HISTORY", "COUNTER_MOVE", "CONT_HISTORY"} :
                      kind = "MAIN" /\ C27_TableOf(flag) = "given"
        /\ kind = "ROOT" => (stage = ALLMOVES /\ \A i \in DOMAIN ops : ops[i].op = "generate")
        /\ kind = "QVCF" =>
              /\ stage \in {DEFENDFIVE_TT, DEFENDFIVE_MOVES, QVCF_TT, QVCF_MOVES, ALLMOVES}
              /\ \A i \in DOMAIN ops : ops[i].op = "score" => ops[i].arg = BALANCED
        /\ (stage \in C27_HistoryStages \/ stage + 1 \in C27_HistoryStages) => kind = "MAIN"

\* A QVCF picker, given no table, scored a generated move with BALANCED alone
\* and returned it.
C27_Witness ==
    /\ kind = "QVCF" /\ args.mainHistory = "null" /\ args.continuationHistory = "null"
    /\ \E i \in DOMAIN ops : ops[i] = [op |-> "score", arg |-> BALANCED]
    /\ moves # <<>> /\ Len(NonNone(yields)) >= 1

\* The results of next() since the last reset().
RECURSIVE C28_SinceReset(_)
C28_SinceReset(ds) ==
    IF ds = <<>> THEN <<>>
    ELSE IF Last(ds).ret = "reset" THEN <<>>
    ELSE Append(C28_SinceReset(SubSeq(ds, 1, Len(ds) - 1)), Last(ds))

\* C28: for both readers, once next() has returned false no later next()
\* without a reset() in between returns anything else or delivers an entry;
\* the Katago reader does not hand out the entries of its last file again.
C28_EndAbsorbing ==
    kind = "DATASET" =>
        LET rs == C28_SinceReset(delivered)
        IN  \A i, j \in DOMAIN rs :
                (i < j /\ rs[i].ret = "false") =>
                    (rs[j].ret = "false" /\ rs[j].entry = NoEntry)

====
